---- MODULE Spec2Model ----
(***************************************************************************)
(* Model of zabbix-report-batch (src/main.go): one sequential run of main  *)
(* -- load_config, zabbix_login, zabbix_export_csv, the two CSV renderers  *)
(* and the report write -- against an environment (config file, HTTP       *)
(* server, file system) whose answers are chosen nondeterministically.     *)
(*                                                                         *)
(* Strings that the program transforms character by character (the         *)
(* credentials and the form body) are sequences of one-character strings.  *)
(* A CSV text is the sequence of its non-empty lines; each line is either  *)
(* syntactically malformed (a quoting error) or a sequence of fields.      *)
(***************************************************************************)
EXTENDS Integers, Sequences, FiniteSets, TLC

VARIABLES
    config_file,          \* content of config.yaml on disk (environment)
    config,               \* main: config
    pc,                   \* position of the run
    exit_code,            \* <<>> while running, <<status>> once the process has exited
    request,              \* the request local of the function being executed
    response,             \* the response local of the function being executed
    net,                  \* requests handed to the HTTP transport, in order
    session_cookie,       \* main: session_cookie
    raw_csv,              \* main: raw_csv
    csv_reader,           \* csv_reader local of each renderer
    result,               \* result buffer of each renderer
    html_problem_table,   \* main: html_problem_table
    html_resolved_table,  \* main: html_resolved_table
    report                \* files written under report/

vars == <<config_file, config, pc, exit_code, request, response, net,
          session_cookie, raw_csv, csv_reader, result, html_problem_table,
          html_resolved_table, report>>

----------------------------------------------------------------------------
(* Bounds of the model *)

MaxLen == 2        \* longest username / password
MaxCookies == 2    \* most cookies in a login response
MaxRows == 3       \* most lines in an export body

----------------------------------------------------------------------------
(* Exit codes, src/main.go:17-27 *)

ExitCodeSuccess == 0
ExitCodeErrorOpeningConfig == 1
ExitCodeErrorDeserializingConfig == 2
ExitCodeErrorLoginRequestBuilder == 3
ExitCodeErrorLoginRequest == 4
ExitCodeErrorWrongCredentials == 5
ExitCodeErrorExportRequestBuilder == 6
ExitCodeErrorMissingCookie == 7
ExitCodeErrorExportRequest == 8

\* exit status of a Go process that dies of an unrecovered runtime panic
PanicExitStatus == 2

StatusFound == 302

\* absent values: a nil pointer, a local not yet assigned
NoConfig == [kind |-> "none"]
NoRequest == [kind |-> "none"]
NoResponse == [kind |-> "none"]
NoCookie == [kind |-> "nil"]
\* client.Do returned a non-nil error
TransportError == [kind |-> "error"]

----------------------------------------------------------------------------
(* net/url: QueryEscape, Values.Encode, and the decoding a server applies *)

\* characters QueryEscape leaves alone
Unreserved == {"a", "b", "0", "2", "3", "4", "5", "6", "B", "D",
               "e", "n", "t", "r", "S", "i", "g", "m", "p", "s", "w", "o", "d"}

\* the two hex digits of a character's byte
Hex(c) ==
    CASE c = "@" -> <<"4", "0">>
      [] c = "%" -> <<"2", "5">>
      [] c = "&" -> <<"2", "6">>
      [] c = "+" -> <<"2", "B">>
      [] c = "=" -> <<"3", "D">>
      [] c = " " -> <<"2", "0">>

Escaped == {"@", "%", "&", "+", "=", " "}

\* url.QueryEscape on one character
EscapeChar(c) ==
    IF c \in Unreserved THEN <<c>>
    ELSE IF c = " " THEN <<"+">>
    ELSE <<"%">> \o Hex(c)

RECURSIVE QueryEscape(_)
QueryEscape(s) ==
    IF s = <<>> THEN <<>> ELSE EscapeChar(Head(s)) \o QueryEscape(Tail(s))

\* url.QueryUnescape: [ok, s], ok false on an invalid escape
RECURSIVE QueryUnescape(_)
QueryUnescape(s) ==
    IF s = <<>> THEN [ok |-> TRUE, s |-> <<>>]
    ELSE IF Head(s) = "%" THEN
        IF Len(s) < 3 THEN [ok |-> FALSE, s |-> <<>>]
        ELSE LET hit  == {c \in Escaped : Hex(c) = <<s[2], s[3]>>}
                 rest == QueryUnescape(SubSeq(s, 4, Len(s)))
             IN  IF hit = {} \/ ~rest.ok THEN [ok |-> FALSE, s |-> <<>>]
                 ELSE [ok |-> TRUE, s |-> <<CHOOSE c \in hit : TRUE>> \o rest.s]
    ELSE LET rest == QueryUnescape(Tail(s))
             c    == IF Head(s) = "+" THEN " " ELSE Head(s)
         IN  IF ~rest.ok THEN rest ELSE [ok |-> TRUE, s |-> <<c>> \o rest.s]

\* position of the first sep in s, 0 when absent
RECURSIVE IndexOf(_, _, _)
IndexOf(s, sep, i) ==
    IF i > Len(s) THEN 0
    ELSE IF s[i] = sep THEN i
    ELSE IndexOf(s, sep, i + 1)

\* strings.Split on a one-character separator
RECURSIVE Split(_, _)
Split(s, sep) ==
    LET i == IndexOf(s, sep, 1)
    IN  IF i = 0 THEN <<s>>
        ELSE <<SubSeq(s, 1, i - 1)>> \o Split(SubSeq(s, i + 1, Len(s)), sep)

\* url.Values.Encode for the three login fields: keys sorted, each value
\* escaped with QueryEscape, joined with & and =
FormEncode(name, password) ==
    <<"e", "n", "t", "e", "r", "=">> \o QueryEscape(<<"S", "i", "g", "n", " ", "i", "n">>)
    \o <<"&", "n", "a", "m", "e", "=">> \o QueryEscape(name)
    \o <<"&", "p", "a", "s", "s", "w", "o", "r", "d", "=">> \o QueryEscape(password)

\* the value a server's application/x-www-form-urlencoded decoder (one pass:
\* split on &, split on the first =, unescape both sides) gives to field
\* key: [ok, s], ok false when the field is absent or does not decode
FormValue(body, key) ==
    LET pairs == Split(body, "&")
        hits  == {i \in 1..Len(pairs) :
                     LET eq == IndexOf(pairs[i], "=", 1)
                         k  == QueryUnescape(SubSeq(pairs[i], 1, eq - 1))
                     IN  eq > 0 /\ k.ok /\ k.s = key}
    IN  IF hits = {} THEN [ok |-> FALSE, s |-> <<>>]
        ELSE LET i  == CHOOSE j \in hits : \A k \in hits : j <= k
                 eq == IndexOf(pairs[i], "=", 1)
             IN  QueryUnescape(SubSeq(pairs[i], eq + 1, Len(pairs[i])))

----------------------------------------------------------------------------
(* Inputs the environment can supply *)

\* all sequences over S of length at most n
SeqsUpTo(S, n) == UNION {[1..k -> S] : k \in 0..n}

\* characters of a username or password: a safe one and ones unsafe in a form body
CredChars == {"a", "@", " ", "%", "&"}
CredStrings == SeqsUpTo(CredChars, MaxLen)

GoodUrl == "http://zbx.example"
\* url.Parse rejects it (missing protocol scheme), so http.NewRequest fails
BadUrl == ":zbx.example"
Urls == {GoodUrl, BadUrl}
UrlParses(u) == u # BadUrl

YamlFile(u, p, url) ==
    [kind |-> "yaml", zabbix_username |-> u, zabbix_password |-> p, zabbix_url |-> url]

\* config.yaml as the full run finds it: absent, not YAML, or one of a few documents
ConfigFiles ==
    {[kind |-> "missing"], [kind |-> "unparsable"]}
    \cup {YamlFile(<<"a">>, <<"p", "@">>, url) : url \in Urls}

\* config.yaml for the study of the login form: every credential pair
FormConfigFiles ==
    {[kind |-> "missing"], [kind |-> "unparsable"]}
    \cup {YamlFile(u, p, url) : u \in CredStrings, p \in CredStrings, url \in Urls}

LoginStatuses == {200, 301, 302, 401, 500}
ExportStatuses == {200, 302, 401, 500}

Cookie(n, v) == [kind |-> "cookie", Name |-> n, Value |-> v]
CookieNames == {"zbx_session", "PHPSESSID"}
CookieValues == {"abc123", "xyz789"}
CookieLists ==
    SeqsUpTo({Cookie(n, v) : n \in CookieNames, v \in CookieValues}, MaxCookies)

\* A CSV line: a quoting error, or fields. The time field carries the line
\* number so that lines are told apart in the output.
RowStatuses == {"PROBLEM", "RESOLVED", "Status"}
RowWidths == {6, 7, 8}
RowKinds ==
    {[malformed |-> TRUE, n |-> 0, status |-> ""]}
    \cup {[malformed |-> FALSE, n |-> n, status |-> st] :
             n \in RowWidths, st \in RowStatuses}

Field(k, i, j) ==
    CASE j = 1 -> "Average"
      [] j = 2 -> "00:0" \o ToString(i)
      [] j = 3 -> "recovery"
      [] j = 4 -> k.status
      [] j = 5 -> "host" \o ToString(i)
      [] j = 6 -> "disk full"
      [] j = 7 -> "1h"
      [] OTHER -> "Ack"

Row(k, i) == [malformed |-> k.malformed, fields |-> [j \in 1..k.n |-> Field(k, i, j)]]

CsvBodies ==
    {[i \in 1..Len(ks) |-> Row(ks[i], i)] : ks \in SeqsUpTo(RowKinds, MaxRows)}

----------------------------------------------------------------------------
(* The run *)

Renderers == {"active", "resolved"}
NewReader == [pos |-> 1, FieldsPerRecord |-> 0]

Start(files) ==
    /\ config_file \in files
    /\ config = NoConfig
    /\ exit_code = <<>>
    /\ request = NoRequest
    /\ response = NoResponse
    /\ net = <<>>
    /\ session_cookie = NoCookie
    /\ raw_csv = <<>>
    /\ csv_reader = [f \in Renderers |-> NewReader]
    /\ result = [f \in Renderers |-> <<>>]
    /\ html_problem_table = <<>>
    /\ html_resolved_table = <<>>
    /\ report = <<>>

Init == Start(ConfigFiles) /\ pc = "load_config"

\* os.Exit(code)
Exit(code) == pc' = "exited" /\ exit_code' = <<code>>

\* load_config, src/main.go:39-58
load_config ==
    /\ pc = "load_config"
    /\ \/ /\ config_file.kind = "missing"
          /\ Exit(ExitCodeErrorOpeningConfig)
          /\ UNCHANGED config
       \/ /\ config_file.kind = "unparsable"
          /\ Exit(ExitCodeErrorDeserializingConfig)
          /\ UNCHANGED config
       \/ /\ config_file.kind = "yaml"
          /\ config' = [kind |-> "config",
                        ZabbixUsername |-> config_file.zabbix_username,
                        ZabbixPassword |-> config_file.zabbix_password,
                        ZabbixUrl |-> config_file.zabbix_url]
          /\ pc' = "login_build"
          /\ UNCHANGED exit_code
    /\ UNCHANGED <<config_file, request, response, net, session_cookie, raw_csv,
                   csv_reader, result, html_problem_table, html_resolved_table,
                   report>>

\* the login request of zabbix_login, src/main.go:64-80: both credentials go
\* through url.QueryEscape and then through form.Encode
LoginRequest(zabbix_url, uname, pass) ==
    [kind |-> "request", method |-> "POST",
     url |-> <<zabbix_url, "/index.php">>,
     content_type |-> "application/x-www-form-urlencoded",
     body |-> FormEncode(QueryEscape(uname), QueryEscape(pass)),
     cookies |-> <<>>]

\* zabbix_login up to the built request, src/main.go:62-80
zabbix_login_build ==
    /\ pc = "login_build"
    /\ \/ /\ ~UrlParses(config.ZabbixUrl)
          /\ Exit(ExitCodeErrorLoginRequestBuilder)
          /\ UNCHANGED request
       \/ /\ UrlParses(config.ZabbixUrl)
          /\ request' = LoginRequest(config.ZabbixUrl, config.ZabbixUsername,
                                     config.ZabbixPassword)
          /\ pc' = "login_do"
          /\ UNCHANGED exit_code
    /\ UNCHANGED <<config_file, config, response, net, session_cookie, raw_csv,
                   csv_reader, result, html_problem_table, html_resolved_table,
                   report>>

\* zabbix_login_do with the exit code of the request builder on a transport
\* error (a copied os.Exit line)
zabbix_login_do_builder_code ==
    /\ pc = "login_do"
    /\ net' = Append(net, request)
    /\ \/ /\ response' = TransportError
          /\ Exit(ExitCodeErrorLoginRequestBuilder)
       \/ /\ \E st \in LoginStatuses, cs \in CookieLists :
                response' = [kind |-> "response", status |-> st, cookies |-> cs,
                             body |-> <<>>]
          /\ pc' = "login_check"
          /\ UNCHANGED exit_code
    /\ UNCHANGED <<config_file, config, request, session_cookie, raw_csv,
                   csv_reader, result, html_problem_table, html_resolved_table,
                   report>>

\* client.Do of zabbix_login with redirects not followed, src/main.go:82-95
zabbix_login_do ==
    /\ pc = "login_do"
    /\ net' = Append(net, request)
    /\ \/ /\ response' = TransportError
          /\ Exit(ExitCodeErrorLoginRequest)
       \/ /\ \E st \in LoginStatuses, cs \in CookieLists :
                response' = [kind |-> "response", status |-> st, cookies |-> cs,
                             body |-> <<>>]
          /\ pc' = "login_check"
          /\ UNCHANGED exit_code
    /\ UNCHANGED <<config_file, config, request, session_cookie, raw_csv,
                   csv_reader, result, html_problem_table, html_resolved_table,
                   report>>

\* the status test taking every redirect for a successful login
LoginAcceptedAnyRedirect(status) == status \in 300..399

\* the status test of zabbix_login, src/main.go:99
LoginAccepted(status) == status = StatusFound

\* the cookie loop keeping the last match instead of returning the first
RECURSIVE FindLastSessionCookie(_)
FindLastSessionCookie(cookies) ==
    IF cookies = <<>> THEN NoCookie
    ELSE IF cookies[Len(cookies)].Name = "zbx_session" THEN cookies[Len(cookies)]
    ELSE FindLastSessionCookie(SubSeq(cookies, 1, Len(cookies) - 1))

\* the cookie loop of zabbix_login, src/main.go:105-109: the first cookie
\* named zbx_session, NoCookie when the loop falls through
RECURSIVE FindSessionCookie(_)
FindSessionCookie(cookies) ==
    IF cookies = <<>> THEN NoCookie
    ELSE IF Head(cookies).Name = "zbx_session" THEN Head(cookies)
    ELSE FindSessionCookie(Tail(cookies))

\* zabbix_login from the response to its return, src/main.go:99-113
zabbix_login_check ==
    /\ pc = "login_check"
    /\ \/ /\ ~LoginAccepted(response.status)
          /\ Exit(ExitCodeErrorWrongCredentials)
          /\ UNCHANGED session_cookie
       \/ /\ LoginAccepted(response.status)
          /\ FindSessionCookie(response.cookies) = NoCookie
          /\ Exit(ExitCodeErrorMissingCookie)
          /\ UNCHANGED session_cookie
       \/ /\ LoginAccepted(response.status)
          /\ FindSessionCookie(response.cookies) # NoCookie
          /\ session_cookie' = FindSessionCookie(response.cookies)
          /\ pc' = "export_build"
          /\ UNCHANGED exit_code
    /\ UNCHANGED <<config_file, config, request, response, net, raw_csv,
                   csv_reader, result, html_problem_table, html_resolved_table,
                   report>>

\* the export request without the AddCookie call
ExportRequestNoCookie(zabbix_url, cookie) ==
    [kind |-> "request", method |-> "GET",
     url |-> <<zabbix_url, "/zabbix.php?action=problem.view.csv">>,
     content_type |-> "",
     body |-> <<>>,
     cookies |-> <<>>]

\* the export request of zabbix_export_csv, src/main.go:119-126: no body,
\* the session cookie attached by name and value
ExportRequest(zabbix_url, cookie) ==
    [kind |-> "request", method |-> "GET",
     url |-> <<zabbix_url, "/zabbix.php?action=problem.view.csv">>,
     content_type |-> "",
     body |-> <<>>,
     cookies |-> <<[Name |-> cookie.Name, Value |-> cookie.Value]>>]

\* zabbix_export_csv up to the built request, src/main.go:118-126. The URL is
\* the one the login request parsed, with another path.
zabbix_export_csv_build ==
    /\ pc = "export_build"
    /\ response' = NoResponse
    /\ IF ~UrlParses(config.ZabbixUrl)
       THEN /\ Exit(ExitCodeErrorExportRequestBuilder)
            /\ request' = NoRequest
       ELSE /\ request' = ExportRequest(config.ZabbixUrl, session_cookie)
            /\ pc' = "export_do"
            /\ UNCHANGED exit_code
    /\ UNCHANGED <<config_file, config, net, session_cookie, raw_csv, csv_reader,
                   result, html_problem_table, html_resolved_table, report>>

\* client.Do of zabbix_export_csv, src/main.go:128-134
zabbix_export_csv_do ==
    /\ pc = "export_do"
    /\ net' = Append(net, request)
    /\ \/ /\ response' = TransportError
          /\ Exit(ExitCodeErrorExportRequest)
       \/ /\ \E st \in ExportStatuses, b \in CsvBodies :
                response' = [kind |-> "response", status |-> st, cookies |-> <<>>,
                             body |-> b]
          /\ pc' = "export_read"
          /\ UNCHANGED exit_code
    /\ UNCHANGED <<config_file, config, request, session_cookie, raw_csv,
                   csv_reader, result, html_problem_table, html_resolved_table,
                   report>>

\* what io.ReadAll can hand back when the read fails part way: the lines
\* before some line, then possibly the first fields of that line
Truncations(body) ==
    {SubSeq(body, 1, n) : n \in 0..(Len(body) - 1)}
    \cup {Append(SubSeq(body, 1, n - 1),
                 [malformed |-> FALSE, fields |-> SubSeq(body[n].fields, 1, 3)]) :
             n \in {m \in 1..Len(body) : Len(body[m].fields) > 3}}

\* io.ReadAll with its error dropped, and the return, src/main.go:136-138
zabbix_export_csv_read ==
    /\ pc = "export_read"
    /\ \/ raw_csv' = response.body
       \/ \E t \in Truncations(response.body) : raw_csv' = t
    /\ request' = NoRequest
    /\ response' = NoResponse
    /\ pc' = "active_begin"
    /\ UNCHANGED <<config_file, config, exit_code, net, session_cookie,
                   csv_reader, result, html_problem_table, html_resolved_table,
                   report>>

----------------------------------------------------------------------------
(* The renderers. A fragment is the sequence of its rows. *)

HeaderRow == [tag |-> "header", cells |-> <<"Host", "Problem", "Time", "Duratiom">>]
TableClose == [tag |-> "/table", cells |-> <<>>]

\* Read of a reader that accepts any field count (FieldsPerRecord < 0)
ReadAnyFieldCount(rd, csv) ==
    IF rd.pos > Len(csv)
    THEN [err |-> TRUE, record |-> <<>>, reader |-> rd]
    ELSE [err    |-> csv[rd.pos].malformed,
          record |-> csv[rd.pos].fields,
          reader |-> [pos |-> rd.pos + 1, FieldsPerRecord |-> rd.FieldsPerRecord]]

\* csv_reader.Read(), src/main.go:149 and 181, of an encoding/csv Reader with
\* default settings: io.EOF past the last line, a ParseError on a quoting
\* error, ErrFieldCount on a line whose field count differs from the first
\* line's; the first line read sets FieldsPerRecord
Read(rd, csv) ==
    IF rd.pos > Len(csv)
    THEN [err |-> TRUE, record |-> <<>>, reader |-> rd]
    ELSE LET row == csv[rd.pos]
             n   == Len(row.fields)
             fpr == IF rd.FieldsPerRecord = 0 THEN n ELSE rd.FieldsPerRecord
         IN  [err    |-> row.malformed \/ n # fpr,
              record |-> row.fields,
              reader |-> [pos |-> rd.pos + 1, FieldsPerRecord |-> fpr]]

\* the index expressions of src/main.go:155-159 and 187-191 (0-based 3, 4, 5,
\* 1, 6): one out of range is a runtime panic
IndexPanics(record) == \E j \in {4, 5, 6, 2, 7} : j > Len(record)

\* the body row with the cells in the order of the CSV columns
BodyRowSourceOrder(record) ==
    [tag |-> "tr", cells |-> <<record[2], record[5], record[6], record[7]>>]

\* the body row of src/main.go:165 and 197: host, problem, time, duration
BodyRow(record) ==
    [tag |-> "tr", cells |-> <<record[5], record[6], record[2], record[7]>>]

\* one pass of the loop of renderer f, src/main.go:148-168 and 180-200, on the
\* outcome rd of its Read; a break writes </table> and goes to done
LoopPass(f, target, rd, done) ==
    /\ csv_reader' = [csv_reader EXCEPT ![f] = rd.reader]
    /\ IF rd.err
       THEN /\ result' = [result EXCEPT ![f] = Append(@, TableClose)]
            /\ pc' = done
            /\ UNCHANGED exit_code
       ELSE IF IndexPanics(rd.record)
       THEN /\ pc' = "panicked"
            /\ exit_code' = <<PanicExitStatus>>
            /\ UNCHANGED result
       ELSE IF rd.record[4] # target
       THEN UNCHANGED <<result, pc, exit_code>>
       ELSE /\ result' = [result EXCEPT ![f] = Append(@, BodyRow(rd.record))]
            /\ UNCHANGED <<pc, exit_code>>

\* extract_active_problems up to its loop, src/main.go:142-146
extract_active_problems_begin ==
    /\ pc = "active_begin"
    /\ csv_reader' = [csv_reader EXCEPT !["active"] = NewReader]
    /\ result' = [result EXCEPT !["active"] = <<HeaderRow>>]
    /\ pc' = "active_loop"
    /\ UNCHANGED <<config_file, config, exit_code, request, response, net,
                   session_cookie, raw_csv, html_problem_table,
                   html_resolved_table, report>>

\* one pass of the loop of extract_active_problems and, on a break, its
\* return to main, src/main.go:148-170 and 215
extract_active_problems_loop ==
    /\ pc = "active_loop"
    /\ LoopPass("active", "PROBLEM", Read(csv_reader["active"], raw_csv),
                "resolved_begin")
    /\ html_problem_table' =
           IF pc' = "resolved_begin" THEN result'["active"] ELSE html_problem_table
    /\ UNCHANGED <<config_file, config, request, response, net, session_cookie,
                   raw_csv, html_resolved_table, report>>

\* extract_resolved_problems up to its loop, src/main.go:174-178
extract_resolved_problems_begin ==
    /\ pc = "resolved_begin"
    /\ csv_reader' = [csv_reader EXCEPT !["resolved"] = NewReader]
    /\ result' = [result EXCEPT !["resolved"] = <<HeaderRow>>]
    /\ pc' = "resolved_loop"
    /\ UNCHANGED <<config_file, config, exit_code, request, response, net,
                   session_cookie, raw_csv, html_problem_table,
                   html_resolved_table, report>>

\* Read that stops at io.EOF only and passes over a line with an error
RECURSIVE ReadSkipping(_, _)
ReadSkipping(rd, csv) ==
    LET r == Read(rd, csv)
    IN  IF r.err /\ rd.pos <= Len(csv) THEN ReadSkipping(r.reader, csv) ELSE r

\* the loop of extract_resolved_problems breaking on io.EOF only
extract_resolved_problems_loop_skipping ==
    /\ pc = "resolved_loop"
    /\ LoopPass("resolved", "RESOLVED",
                ReadSkipping(csv_reader["resolved"], raw_csv), "write")
    /\ html_resolved_table' =
           IF pc' = "write" THEN result'["resolved"] ELSE html_resolved_table
    /\ UNCHANGED <<config_file, config, request, response, net, session_cookie,
                   raw_csv, html_problem_table, report>>

\* one pass of the loop of extract_resolved_problems and, on a break, its
\* return to main, src/main.go:180-202 and 216
extract_resolved_problems_loop ==
    /\ pc = "resolved_loop"
    /\ LoopPass("resolved", "RESOLVED", Read(csv_reader["resolved"], raw_csv),
                "write")
    /\ html_resolved_table' =
           IF pc' = "write" THEN result'["resolved"] ELSE html_resolved_table
    /\ UNCHANGED <<config_file, config, request, response, net, session_cookie,
                   raw_csv, html_problem_table, report>>

\* the document of src/main.go:218-240
EmailHtml(problem_table, resolved_table) ==
    [style |-> "<style>", active |-> problem_table, resolved |-> resolved_table]

\* the end of main, src/main.go:218-247: the document is written under
\* report/, or the write fails and the error is dropped; main returns
write_report ==
    /\ pc = "write"
    /\ \/ report' = Append(report, EmailHtml(html_problem_table, html_resolved_table))
       \/ UNCHANGED report
    /\ Exit(ExitCodeSuccess)
    /\ UNCHANGED <<config_file, config, request, response, net, session_cookie,
                   raw_csv, csv_reader, result, html_problem_table,
                   html_resolved_table>>

Next ==
    \/ load_config
    \/ zabbix_login_build
    \/ zabbix_login_do
    \/ zabbix_login_check
    \/ zabbix_export_csv_build
    \/ zabbix_export_csv_do
    \/ zabbix_export_csv_read
    \/ extract_active_problems_begin
    \/ extract_active_problems_loop
    \/ extract_resolved_problems_begin
    \/ extract_resolved_problems_loop
    \/ write_report

Spec == Init /\ [][Next]_vars

\* the login form on its own: every credential pair, up to the built request
InitForm == Start(FormConfigFiles) /\ pc = "load_config"
NextForm == load_config \/ zabbix_login_build
SpecForm == InitForm /\ [][NextForm]_vars

----------------------------------------------------------------------------
(* Vocabulary of the properties *)

Terminated == pc \in {"exited", "panicked"}
ExitedWith(code) == pc = "exited" /\ exit_code = <<code>>

\* response holds the answer to the login request
LoginResponse == response.kind = "response" /\ Len(net) = 1

IsSession(c) == c.Name = "zbx_session"
SessionIndexes(cookies) == {i \in 1..Len(cookies) : IsSession(cookies[i])}

\* field j (1-based) of a line, "" when the line has no such field
FieldOr(r, j) == IF j <= Len(r.fields) THEN r.fields[j] ELSE ""

\* the table a renderer owes for the lines rows: header, one body row per line
\* whose status is target, in order, </table>
RECURSIVE BodyOf(_, _)
BodyOf(rows, target) ==
    IF rows = <<>> THEN <<>>
    ELSE LET r == Head(rows)
         IN  (IF FieldOr(r, 4) = target
              THEN <<[tag |-> "tr",
                      cells |-> <<FieldOr(r, 5), FieldOr(r, 6), FieldOr(r, 2),
                                  FieldOr(r, 7)>>]>>
              ELSE <<>>)
             \o BodyOf(Tail(rows), target)

Fragment(rows, target) == <<HeaderRow>> \o BodyOf(rows, target) \o <<TableClose>>

\* a row-level parse error of the CSV reader: a quoting error, or a field
\* count other than the first line's
ErrorAt(csv, i) == csv[i].malformed \/ Len(csv[i].fields) # Len(csv[1].fields)
FirstError(csv) ==
    LET E == {i \in 1..Len(csv) : ErrorAt(csv, i)}
    IN  IF E = {} THEN Len(csv) + 1 ELSE CHOOSE i \in E : \A j \in E : i <= j
BeforeFirstError(csv) == SubSeq(csv, 1, FirstError(csv) - 1)

\* a malformed or short line, and the lines before the first of them
BadRow(r) == r.malformed \/ Len(r.fields) < 7
HasBadRow(csv) == \E i \in 1..Len(csv) : BadRow(csv[i])
BeforeFirstBad(csv) ==
    LET B == {i \in 1..Len(csv) : BadRow(csv[i])}
    IN  SubSeq(csv, 1, (CHOOSE i \in B : \A j \in B : i <= j) - 1)

\* the first line is well formed and too short for the index expressions
ShortFirstLine(csv) ==
    csv # <<>> /\ ~csv[1].malformed /\ Len(csv[1].fields) < 7

\* line i of the CSV has a body row in table t (lines are told apart by time)
InTable(t, csv, i) ==
    /\ Len(csv[i].fields) >= 2
    /\ \E k \in 1..Len(t) : t[k].tag = "tr" /\ t[k].cells[3] = csv[i].fields[2]

----------------------------------------------------------------------------
(* Properties *)

\* C1, as stated: for any CSV, a returned fragment is the header row, one
\* body row for every line of the CSV whose status is the target, in order,
\* and </table>.
C1_OneRowPerMatchingLine ==
    /\ html_problem_table # <<>> => html_problem_table = Fragment(raw_csv, "PROBLEM")
    /\ html_resolved_table # <<>> => html_resolved_table = Fragment(raw_csv, "RESOLVED")

\* C1, amended: a renderer returns unless the first line is well formed with
\* fewer than 7 fields (then the process dies in it); a returned fragment is
\* the header row, one body row for every line BEFORE THE FIRST ROW-LEVEL
\* PARSE ERROR whose status is the target, in order, and </table>; for an
\* empty CSV that is the header row and </table>.
C1_OneRowPerMatchingLineBeforeError ==
    /\ html_problem_table # <<>> =>
           html_problem_table = Fragment(BeforeFirstError(raw_csv), "PROBLEM")
    /\ html_resolved_table # <<>> =>
           html_resolved_table = Fragment(BeforeFirstError(raw_csv), "RESOLVED")
    /\ pc = "panicked" => ShortFirstLine(raw_csv)
    /\ pc \in {"resolved_begin", "resolved_loop", "write"} =>
           html_problem_table # <<>> /\ ~ShortFirstLine(raw_csv)
    /\ (raw_csv = <<>> /\ pc = "write") =>
           /\ html_problem_table = <<HeaderRow, TableClose>>
           /\ html_resolved_table = <<HeaderRow, TableClose>>

\* both renderers have returned on a CSV with a matching line on each side of
\* a parse error
C1_Witness ==
    /\ pc = "write"
    /\ Len(raw_csv) = 3
    /\ FirstError(raw_csv) = 2
    /\ FieldOr(raw_csv[1], 4) = "PROBLEM"
    /\ FieldOr(raw_csv[3], 4) = "PROBLEM"
    /\ Len(html_problem_table) = 3

\* C2, as stated: a malformed or short line, at any position, ends the scan:
\* the renderer does not abort, and returns the header row, the body rows of
\* the matching lines before the bad line, and </table>.
C2_BadLineEndsScan ==
    HasBadRow(raw_csv) =>
        /\ pc # "panicked"
        /\ html_problem_table # <<>> =>
               html_problem_table = Fragment(BeforeFirstBad(raw_csv), "PROBLEM")
        /\ html_resolved_table # <<>> =>
               html_resolved_table = Fragment(BeforeFirstBad(raw_csv), "RESOLVED")

\* C3: a login response with a status other than 302 leaves the run at the
\* status test or ends it with exit code 5, with no session cookie taken and
\* no request after the login request.
C3_NotFoundIsWrongCredentials ==
    (LoginResponse /\ response.status # StatusFound) =>
        /\ pc = "login_check" \/ ExitedWith(ExitCodeErrorWrongCredentials)
        /\ session_cookie = NoCookie
        /\ \A i \in 1..Len(net) : net[i].method = "POST"

\* a 301 response carrying a zbx_session cookie has been turned down
C3_Witness ==
    /\ ExitedWith(ExitCodeErrorWrongCredentials)
    /\ response.status = 301
    /\ SessionIndexes(response.cookies) # {}

\* C4: after the cookie scan of a 302 response, the run holds the first
\* cookie named zbx_session if there is one and has ended with exit code 7 if
\* there is none; exit code 7 ends no other run, and the cookie held is never
\* one of another name.
C4_FirstSessionCookie ==
    /\ (LoginResponse /\ response.status = StatusFound /\ pc # "login_check") =>
           LET I == SessionIndexes(response.cookies)
           IN  IF I # {}
               THEN /\ pc = "export_build"
                    /\ session_cookie =
                           response.cookies[CHOOSE i \in I : \A j \in I : i <= j]
               ELSE /\ ExitedWith(ExitCodeErrorMissingCookie)
                    /\ session_cookie = NoCookie
    /\ ExitedWith(ExitCodeErrorMissingCookie) =>
           /\ LoginResponse
           /\ response.status = StatusFound
           /\ SessionIndexes(response.cookies) = {}
    /\ session_cookie # NoCookie => IsSession(session_cookie)

\* login has returned from a response with two zbx_session cookies of
\* different values
C4_Witness ==
    /\ pc = "export_build"
    /\ LoginResponse
    /\ Len(response.cookies) = 2
    /\ IsSession(response.cookies[1]) /\ IsSession(response.cookies[2])
    /\ response.cookies[1].Value # response.cookies[2].Value

FailureCodes ==
    {ExitCodeErrorOpeningConfig, ExitCodeErrorDeserializingConfig,
     ExitCodeErrorLoginRequestBuilder, ExitCodeErrorLoginRequest,
     ExitCodeErrorWrongCredentials, ExitCodeErrorExportRequestBuilder,
     ExitCodeErrorMissingCookie, ExitCodeErrorExportRequest}

\* nothing of the export stage or of a later stage has happened
NothingAfterLogin ==
    /\ \A i \in 1..Len(net) : net[i].method = "POST"
    /\ raw_csv = <<>>
    /\ result = [f \in Renderers |-> <<>>]
    /\ html_problem_table = <<>> /\ html_resolved_table = <<>>
    /\ report = <<>>

\* C5: the eight failure codes are nonzero and pairwise distinct; each
\* failure ends the run where it occurs with its own code, nothing of a later
\* stage having happened and no report written; exit code 0 ends only runs in
\* which none of the failures occurred.
C5_FailuresAreFatalAndDistinct ==
    /\ Cardinality(FailureCodes) = 8 /\ ExitCodeSuccess \notin FailureCodes
    /\ (config_file.kind = "missing" /\ pc # "load_config") =>
           ExitedWith(ExitCodeErrorOpeningConfig) /\ net = <<>> /\ NothingAfterLogin
    /\ (config_file.kind = "unparsable" /\ pc # "load_config") =>
           ExitedWith(ExitCodeErrorDeserializingConfig) /\ net = <<>>
           /\ NothingAfterLogin
    /\ (config.kind = "config" /\ ~UrlParses(config.ZabbixUrl) /\ pc # "login_build") =>
           ExitedWith(ExitCodeErrorLoginRequestBuilder) /\ net = <<>>
           /\ NothingAfterLogin
    /\ (response = TransportError /\ Len(net) = 1) =>
           ExitedWith(ExitCodeErrorLoginRequest) /\ session_cookie = NoCookie
           /\ NothingAfterLogin
    /\ (LoginResponse /\ response.status # StatusFound /\ pc # "login_check") =>
           ExitedWith(ExitCodeErrorWrongCredentials) /\ NothingAfterLogin
    /\ (LoginResponse /\ response.status = StatusFound /\ pc # "login_check"
          /\ SessionIndexes(response.cookies) = {}) =>
           ExitedWith(ExitCodeErrorMissingCookie) /\ NothingAfterLogin
    /\ (response = TransportError /\ Len(net) = 2) =>
           /\ ExitedWith(ExitCodeErrorExportRequest)
           /\ raw_csv = <<>> /\ result = [f \in Renderers |-> <<>>]
           /\ html_problem_table = <<>> /\ html_resolved_table = <<>>
           /\ report = <<>>
    /\ (pc = "exited" /\ exit_code # <<ExitCodeSuccess>>) =>
           /\ report = <<>>
           /\ \E c \in FailureCodes : exit_code = <<c>>
    /\ ExitedWith(ExitCodeSuccess) =>
           /\ config_file.kind = "yaml" /\ UrlParses(config.ZabbixUrl)
           /\ Len(net) = 2 /\ session_cookie # NoCookie
           /\ response # TransportError
           /\ html_problem_table # <<>> /\ html_resolved_table # <<>>

\* the login request was sent and the transport failed
C5_Witness ==
    /\ ExitedWith(ExitCodeErrorLoginRequest)
    /\ response = TransportError
    /\ Len(net) = 1

\* C6, as stated: decoding the login body once as a form gives back the
\* configured username as name and the configured password as password.
C6_BodyDecodesToCredentials ==
    (request.kind = "request" /\ request.method = "POST") =>
        /\ FormValue(request.body, <<"n", "a", "m", "e">>) =
               [ok |-> TRUE, s |-> config.ZabbixUsername]
        /\ FormValue(request.body, <<"p", "a", "s", "s", "w", "o", "r", "d">>) =
               [ok |-> TRUE, s |-> config.ZabbixPassword]

\* C7: every body row a renderer emits has four cells, which are fields 4, 5,
\* 1 and 6 (0-based) of one line of the CSV whose status is the renderer's
\* target, whatever the line carries past field 6; fields 0, 2 and those past
\* 6 of that line are in no cell.
RowsCopyFourFields(t, target) ==
    \A k \in 1..Len(t) :
        t[k].tag = "tr" =>
            /\ Len(t[k].cells) = 4
            /\ \E i \in 1..Len(raw_csv) :
                  LET r == raw_csv[i].fields
                  IN  /\ Len(r) >= 7
                      /\ r[4] = target
                      /\ t[k].cells = <<r[5], r[6], r[2], r[7]>>
                      /\ \A c \in 1..4 : \A j \in ({1, 3} \cup 8..Len(r)) :
                            t[k].cells[c] # r[j]

C7_FourCellsInFixedOrder ==
    /\ RowsCopyFourFields(result["active"], "PROBLEM")
    /\ RowsCopyFourFields(html_problem_table, "PROBLEM")
    /\ RowsCopyFourFields(result["resolved"], "RESOLVED")
    /\ RowsCopyFourFields(html_resolved_table, "RESOLVED")

\* both tables hold a row taken from a line of 8 fields
C7_Witness ==
    /\ pc = "write"
    /\ Len(raw_csv) >= 2
    /\ Len(raw_csv[1].fields) = 8
    /\ Len(html_problem_table) >= 3
    /\ Len(html_resolved_table) >= 3

\* the stage a position belongs to
Stage(p) ==
    CASE p = "load_config" -> 1
      [] p \in {"login_build", "login_do", "login_check"} -> 2
      [] p \in {"export_build", "export_do", "export_read"} -> 3
      [] p \in {"active_begin", "active_loop"} -> 4
      [] p \in {"resolved_begin", "resolved_loop"} -> 5
      [] p = "write" -> 6
      [] OTHER -> 7

IsLoginRequest(r) == r.method = "POST" /\ r.url[2] = "/index.php"
IsExportRequest(r) ==
    r.method = "GET" /\ r.url[2] = "/zabbix.php?action=problem.view.csv"

\* every step stays in its stage, or ends the run, or enters the next stage
\* with nothing failed; a finished stage is not entered again and the steps of
\* a stage that send or write are taken once
LinearStep ==
    /\ pc' # pc =>
          \/ pc' \in {"exited", "panicked"}
          \/ Stage(pc') = Stage(pc) /\ exit_code' = <<>>
          \/ Stage(pc') = Stage(pc) + 1 /\ exit_code' = <<>>
    /\ pc \in {"exited", "panicked"} => pc' = pc
    /\ net' # net => /\ pc \in {"login_do", "export_do"}
                     /\ pc' # pc
                     /\ Len(net') = Len(net) + 1
    /\ report' # report => pc = "write" /\ Len(report') = 1
    /\ (Stage(pc) = 1 /\ Stage(pc') = 2) => config'.kind = "config"
    /\ (Stage(pc) = 2 /\ Stage(pc') = 3) => session_cookie' # NoCookie

\* at most one login request, then at most one export request, sent only
\* with a session cookie held and carrying its name and value
RequestsSent ==
    /\ Len(net) <= 2
    /\ Len(net) >= 1 => IsLoginRequest(net[1])
    /\ Len(net) = 2 =>
          /\ IsExportRequest(net[2])
          /\ session_cookie # NoCookie
          /\ net[2].cookies =
                 <<[Name |-> session_cookie.Name, Value |-> session_cookie.Value]>>

C9_ExportResponseNeverFailsTheRun ==
    (Len(net) = 2 /\ Terminated) =>
        IF response = TransportError
        THEN ExitedWith(ExitCodeErrorExportRequest)
        ELSE ExitedWith(ExitCodeSuccess)
             /\ html_problem_table # <<>> /\ html_resolved_table # <<>>

\* C10: once both renderers have returned, their readers stopped at the same
\* line; no line has a body row in both tables, a line whose status is neither
\* PROBLEM nor RESOLVED has one in neither, and a PROBLEM or RESOLVED line has
\* one in exactly one table exactly when it precedes the first row-level parse
\* error.
C10_TablesShareOnePrefix ==
    html_resolved_table # <<>> =>
        /\ csv_reader["active"] = csv_reader["resolved"]
        /\ \A i \in 1..Len(raw_csv) :
              LET inA == InTable(html_problem_table, raw_csv, i)
                  inR == InTable(html_resolved_table, raw_csv, i)
                  st  == FieldOr(raw_csv[i], 4)
              IN  /\ ~(inA /\ inR)
                  /\ st \notin {"PROBLEM", "RESOLVED"} => ~inA /\ ~inR
                  /\ st \in {"PROBLEM", "RESOLVED"} =>
                        ((inA \/ inR) <=> i < FirstError(raw_csv))
                  /\ inA => st = "PROBLEM"
                  /\ inR => st = "RESOLVED"

\* both renderers returned on a CSV with a PROBLEM line before a parse error
\* and a RESOLVED line after it
C10_Witness ==
    /\ pc = "write"
    /\ Len(raw_csv) = 3
    /\ FirstError(raw_csv) = 2
    /\ FieldOr(raw_csv[1], 4) = "PROBLEM"
    /\ FieldOr(raw_csv[3], 4) = "RESOLVED"
    /\ Len(html_problem_table) = 3
    /\ Len(html_resolved_table) = 2

====
